---------------------------- MODULE Spec2Model ----------------------------
(***************************************************************************)
(* Model of the supplier-sourcing pipeline of backend/: the stop-signal    *)
(* registry (agents/state.py), the orchestrator and its stages             *)
(* (agents/orchestrator.py, researcher.py, writer.py, base.py), the        *)
(* scraper engine and its directory threads (scraper/engine.py,            *)
(* scraper/sources/*.py) and the SSE worker and consumer (app.py).         *)
(***************************************************************************)
EXTENDS Naturals, Sequences, FiniteSets, TLC

\* ------------------------------------------------------------------ bounds
\* Number of /api/query requests (runs) the model lets arrive.
NumRuns == 2
\* Clock seconds the model lets pass: int(time.time()) ranges over 1..MaxClock.
MaxClock == 2
\* Longest supplier list the extraction LLM returns.
MaxSuppliers == 1
\* Directories the enable-map switches on in the end-to-end specifications.
MaxPipelineDirs == 1
\* Directories the enable-map switches on in the scraping specification.
MaxScrapeDirs == 2
\* Clients that send /api/stop requests at the same time.
NumStopClients == 2

Runs == 1..NumRuns
Ids  == 1..MaxClock
StopClients == 1..NumStopClients
\* The absent value (None) of a reference to a run's Event or logger.
None == 0

\* --------------------------------------------------------------- constants
\* scraper/sources/directories.py: the directory scrapers, in dict order.
DIRECTORY_SCRAPERS ==
    <<"IndiaMART", "Alibaba", "Made-in-China", "ThomasNet", "Europages">>

DirNames == {DIRECTORY_SCRAPERS[i] : i \in 1..Len(DIRECTORY_SCRAPERS)}
Sources  == {"Tavily", "Serper", "DuckDuckGo"} \cup DirNames

VARIABLES
    clock,          \* int(time.time())
    cfg,            \* ScraperConfig: the keys, has_tavily, has_serper, enabled map
    pc,             \* position of each run's worker thread
    state,          \* PipelineState of each run
    exc,            \* exception propagating in each run's worker ("" = none)
    stop_events,    \* registry _stop_events: id -> owner of the Event, or None
    is_set,         \* flag of the threading.Event each run registered
    report_store,   \* _report_store: insertion-ordered <<session_id, data>>
    scraper_logger, \* ScraperEngine.logger (one engine per orchestrator)
    lines,          \* StreamLogger.lines of each run's logger
    q,              \* queue.Queue of each run
    relayed,        \* items the consumer generate() has yielded
    cdone,          \* consumer left its loop
    chunks,         \* ScraperEngine.run local: labelled blocks
    used,           \* ScraperEngine.run local: sources_used
    results,        \* scrape_directories local dict, in insertion order
    threads,        \* state of each directory thread of the run
    joined,         \* threads the join loop has passed
    abandoned,      \* threads still alive when their join timed out
    iterLen,        \* size of the dict when engine.run created its iterator
    netcalls,       \* network requests issued per source
    llmcalls,       \* stages whose LLM request was sent
    stopper,        \* the /api/stop request each client has in flight
    stopInScrape,   \* history: request_stop(id of run) returned True mid-scrape
    stoppedAt,      \* history: the stage after which is_stopped() was first true
    linSet,         \* history: the Events set, had each request_stop been atomic
    linRet,         \* history: each client's answer, had its request been atomic
    fn              \* a text function under test: its arguments and results

vars == <<clock, cfg, pc, state, exc, stop_events, is_set, report_store,
          scraper_logger, lines, q, relayed, cdone, chunks, used, results,
          threads, joined, abandoned, iterLen, netcalls, llmcalls,
          stopper, stopInScrape, stoppedAt, linSet, linRet, fn>>

engineVars == <<chunks, used, results, threads, joined, abandoned, iterLen>>
histVars   == <<stopInScrape, stoppedAt, linSet, linRet>>
consVars   == <<relayed, cdone>>
regVars    == <<stop_events, is_set>>
callVars   == <<netcalls, llmcalls>>
pipeVars   == <<clock, cfg, pc, state, exc, regVars, report_store,
               scraper_logger, lines, q, consVars, engineVars, callVars,
               stopper, histVars>>

\* ------------------------------------------------------------------ events
\* A queue item: a JSON-encoded entry, or the end-of-stream sentinel None.
\* "by" is the run whose pipeline emitted the entry.
Ev(type, by, level, msg) == [type |-> type, by |-> by, level |-> level, msg |-> msg]
LogEv(by, level, msg)    == Ev("log", by, level, msg)
Sentinel                 == Ev("None", None, "", "")

TerminalTypes == {"done", "stopped", "error"}

\* Number of entries of a sequence that satisfy a type test.
RECURSIVE CountTypes(_, _)
CountTypes(s, types) ==
    IF s = <<>> THEN 0
    ELSE (IF Head(s).type \in types THEN 1 ELSE 0) + CountTypes(Tail(s), types)

RECURSIVE SeqToSet(_)
SeqToSet(s) == IF s = <<>> THEN {} ELSE {Head(s)} \cup SeqToSet(Tail(s))

\* logger._emit on the logger of run `target`, once per entry: lines and queue.
Put(f, target, entries) ==
    IF target = None THEN f ELSE [f EXCEPT ![target] = @ \o entries]

\* ------------------------------------------------------------ configuration
\* scraper/config.py: ScraperConfig as the engine reads it.  A key is a
\* sequence of characters: none, one that lacks the dash of the Tavily
\* prefix, and a well-formed Tavily key; none or some key for Serper.
TavilyKeys == {<<>>, <<"t", "v", "l", "y">>, <<"t", "v", "l", "y", "-", "1">>}
SerperKeys == {<<>>, <<"k">>}

\* str.startswith.
StartsWith(str, prefix) ==
    Len(str) >= Len(prefix) /\ SubSeq(str, 1, Len(prefix)) = prefix

\* A faulty property: any non-empty key counts.
has_tavily_any(key) == key # <<>>

\* Lines 26-28: bool(self.tavily_key and self.tavily_key.startswith("tvly-")).
has_tavily(key) == key # <<>> /\ StartsWith(key, <<"t", "v", "l", "y", "-">>)

\* Lines 30-32: bool(self.serper_key).
has_serper(key) == key # <<>>

\* Line 23: the default of scrape_limit.
SCRAPE_LIMIT == 5

\* The configurations with at most maxDirs directories enabled; has_tavily
\* and has_serper are the two properties, enabled is the use_* flags, and
\* scrape_limit has its default.
Configs(maxDirs) ==
    {[tavily_key |-> tk, serper_key |-> sk,
      has_tavily |-> has_tavily(tk), has_serper |-> has_serper(sk),
      enabled |-> e, scrape_limit |-> SCRAPE_LIMIT] :
        tk \in TavilyKeys, sk \in SerperKeys,
        e \in {f \in [DirNames -> BOOLEAN] :
                 Cardinality({d \in DirNames : f[d]}) <= maxDirs}}

\* What the LLM call of each stage can produce (agents/base.py call_groq and
\* the parsing of its answer by the stage).
ParseOutcomes   == {"ok", "nokeys", "ratelimit", "error"}
ExtractOutcomes == {"list", "nonlist", "ratelimit", "error"}
WriterOutcomes  == {"ok", "ratelimit", "error"}

\* A supplier record: "full" has every field, "null" has products: null.
SupplierKinds == {"full", "null"}
SupplierLists ==
    UNION {[1..n -> SupplierKinds] : n \in 0..MaxSuppliers}

\* ------------------------------------------------------------------ state
\* agents/state.py: PipelineState() with its field defaults.
NewPipelineState(sid) ==
    [session_id      |-> sid,
     parsed_product  |-> "",
     parsed_location |-> "",
     scrape_summary  |-> <<>>,
     raw_results     |-> <<>>,
     sources_used    |-> <<>>,
     handoff_done    |-> FALSE,
     final_report    |-> "",
     errors          |-> <<>>,
     stopped         |-> FALSE,
     stop_event      |-> None]

\* agents/state.py: PipelineState.is_stopped.
is_stopped(st) ==
    st.stopped \/ (st.stop_event # None /\ is_set[st.stop_event])

\* A faulty check: the Event is never looked at.
SignalSetIgnored(ev) == FALSE

\* `if stop_event and stop_event.is_set()` as call_groq and the adapters
\* evaluate it on the reference they are handed.
SignalSet(ev) == ev # None /\ is_set[ev]

\* A faulty register_stop: an id that has an entry keeps it (setdefault).
register_stop_keep(reg, sid, ev) ==
    IF reg[sid] # None THEN reg ELSE [reg EXCEPT ![sid] = ev]

\* A faulty cleanup_stop: it empties the registry.
cleanup_stop_all(reg, sid) == [i \in DOMAIN reg |-> None]

\* agents/state.py: the three registry operations on the dict.
register_stop(reg, sid, ev) == [reg EXCEPT ![sid] = ev]
lookup_stop(reg, sid)       == reg[sid]
cleanup_stop(reg, sid)      == [reg EXCEPT ![sid] = None]

IdleStopper == [pc |-> "idle", id |-> None, ev |-> None, ret |-> FALSE]

\* No text function is under test.
NoCall == [op |-> "none", text |-> <<>>, max_chars |-> 0, out |-> <<>>]

\* No run has started, no stop request is in flight.
InitRuns ==
    /\ pc = [r \in Runs |-> "idle"]
    /\ state = [r \in Runs |-> NewPipelineState(None)]
    /\ exc = [r \in Runs |-> ""]
    /\ stop_events = [i \in Ids |-> None]
    /\ is_set = [r \in Runs |-> FALSE]
    /\ scraper_logger = None
    /\ lines = [r \in Runs |-> <<>>]
    /\ q = [r \in Runs |-> <<>>]
    /\ relayed = [r \in Runs |-> <<>>]
    /\ cdone = [r \in Runs |-> FALSE]
    /\ chunks = [r \in Runs |-> <<>>]
    /\ used = [r \in Runs |-> <<>>]
    /\ results = [r \in Runs |-> <<>>]
    /\ threads = [r \in Runs |-> [d \in DirNames |-> "none"]]
    /\ joined = [r \in Runs |-> 0]
    /\ abandoned = [r \in Runs |-> {}]
    /\ iterLen = [r \in Runs |-> 0]
    /\ netcalls = [r \in Runs |-> [s \in Sources |-> 0]]
    /\ llmcalls = [r \in Runs |-> {}]
    /\ stopper = [s \in StopClients |-> IdleStopper]
    /\ stopInScrape = [r \in Runs |-> FALSE]
    /\ stoppedAt = [r \in Runs |-> ""]
    /\ linSet = [r \in Runs |-> FALSE]
    /\ linRet = [s \in StopClients |-> FALSE]

\* The state of the process before its first request.
InitCommon ==
    /\ InitRuns
    /\ report_store = <<>>
    /\ fn = NoCall

\* ------------------------------------------------------ app.py: /api/query
\* query_endpoint: creates the queue and the logger and starts the worker.
query_endpoint(r) ==
    /\ pc[r] = "idle"
    /\ pc' = [pc EXCEPT ![r] = "run"]
    /\ UNCHANGED <<clock, cfg, state, exc, regVars, report_store,
                   scraper_logger, lines, q, consVars, engineVars, callVars,
                   stopper, histVars, fn>>

\* ------------------------------------- orchestrator.run, lines 66 to 84
\* Injects the run's logger into the shared engine and creates the state,
\* whose session id is MFG-<int(time.time())>: the clock, which may have
\* advanced since it was last read.
OrchInit(r) ==
    /\ pc[r] = "run"
    /\ scraper_logger' = r
    /\ \E now \in clock..MaxClock :
         /\ clock' = now
         /\ state' = [state EXCEPT ![r] = NewPipelineState(now)]
    /\ pc' = [pc EXCEPT ![r] = "register"]
    /\ UNCHANGED <<cfg, exc, regVars, report_store, lines, q, consVars,
                   engineVars, callVars, stopper, histVars, fn>>

\* The log entries orchestrator.run writes before the try block.
StartEntries(r) ==
    <<LogEv(r, "system", "SESSION"), LogEv(r, "system", "QUERY"),
      LogEv(r, "system", "MODEL"),
      Ev("session", r, "", "")>>
    \o (IF cfg.has_tavily THEN <<LogEv(r, "success", "Search: Tavily")>> ELSE <<>>)
    \o (IF cfg.has_serper THEN <<LogEv(r, "success", "Search: Serper")>> ELSE <<>>)
    \o <<LogEv(r, "info", "Search: DuckDuckGo")>>

\* state.stop_event = register_stop(state.session_id), then the first logs
\* and the session event.
OrchRegister(r) ==
    /\ pc[r] = "register"
    /\ stop_events' = register_stop(stop_events, state[r].session_id, r)
    /\ is_set' = [is_set EXCEPT ![r] = FALSE]
    /\ state' = [state EXCEPT ![r].stop_event = r]
    /\ lines' = Put(lines, r, StartEntries(r))
    /\ q' = Put(q, r, StartEntries(r))
    /\ linSet' = [linSet EXCEPT ![r] = FALSE]
    /\ pc' = [pc EXCEPT ![r] = "parse"]
    /\ UNCHANGED <<clock, cfg, exc, report_store, scraper_logger, consVars,
                   engineVars, callVars, stopper, stopInScrape, stoppedAt, linRet, fn>>

\* --------------------------------------------- researcher.py: _parse_query
\* A faulty handler: the rate limit at parsing is treated like a stop.
ParseFallbackStops(st) == [st EXCEPT !.stopped = TRUE]

\* Lines 92-95: on RateLimitSkip the raw query is the product and the
\* location is "Global".
ParseFallback(st) ==
    [st EXCEPT !.parsed_product = "query", !.parsed_location = "Global"]

\* researcher.run line 54 and _parse_query.  call_groq raises PipelineStopped
\* before any request when the Event is set; a 429 becomes RateLimitSkip; any
\* other failure (and an answer on which parsed.get fails) leaves the method,
\* which has no handler for it.
ParseQuery(r, env) ==
    /\ pc[r] = "parse"
    /\ LET st   == state[r]
           pre  == <<LogEv(r, "system", "ResearcherAgent starting"),
                     LogEv(r, "info", "Parsing query")>>
           both == <<LogEv(r, "info", "Product"), LogEv(r, "info", "Location")>>
       IN IF SignalSet(st.stop_event)
          THEN /\ state' = [state EXCEPT ![r].stopped = TRUE]
               /\ lines' = Put(lines, r, pre)
               /\ q' = Put(q, r, pre)
               /\ pc' = [pc EXCEPT ![r] = "after_parse"]
               /\ UNCHANGED <<exc, llmcalls>>
          ELSE /\ llmcalls' = [llmcalls EXCEPT ![r] = @ \cup {"parse"}]
               /\ \E o \in env.parse :
                    CASE o = "ok" ->
                           /\ state' = [state EXCEPT ![r].parsed_product = "llm",
                                                     ![r].parsed_location = "llm"]
                           /\ lines' = Put(lines, r, pre \o both)
                           /\ q' = Put(q, r, pre \o both)
                           /\ pc' = [pc EXCEPT ![r] = "after_parse"]
                           /\ exc' = exc
                      [] o = "nokeys" ->
                           /\ state' = [state EXCEPT ![r].parsed_product = "query",
                                                     ![r].parsed_location = "Global"]
                           /\ lines' = Put(lines, r, pre \o both)
                           /\ q' = Put(q, r, pre \o both)
                           /\ pc' = [pc EXCEPT ![r] = "after_parse"]
                           /\ exc' = exc
                      [] o = "ratelimit" ->
                           /\ state' = [state EXCEPT ![r] = ParseFallback(@)]
                           /\ lines' = Put(lines, r, Append(pre, LogEv(r, "warn", "Rate limit on query parse")))
                           /\ q' = Put(q, r, Append(pre, LogEv(r, "warn", "Rate limit on query parse")))
                           /\ pc' = [pc EXCEPT ![r] = "after_parse"]
                           /\ exc' = exc
                      [] o = "error" ->
                           /\ state' = state
                           /\ lines' = Put(lines, r, pre)
                           /\ q' = Put(q, r, pre)
                           /\ pc' = [pc EXCEPT ![r] = "finally"]
                           /\ exc' = [exc EXCEPT ![r] = "Exception"]
    /\ UNCHANGED <<clock, cfg, regVars, report_store, scraper_logger, consVars,
                   engineVars, netcalls, stopper, histVars, fn>>

\* researcher.run lines 58-59: return early when stopped after parsing.
ResearcherCheckParse(r) ==
    /\ pc[r] = "after_parse"
    /\ pc' = [pc EXCEPT ![r] = IF is_stopped(state[r]) THEN "finally" ELSE "scrape"]
    /\ stoppedAt' = [stoppedAt EXCEPT ![r] = IF is_stopped(state[r]) THEN "parse" ELSE @]
    /\ UNCHANGED <<clock, cfg, state, exc, regVars, report_store, scraper_logger,
                   lines, q, consVars, engineVars, callVars, stopper,
                   stopInScrape, linSet, linRet, fn>>

\* ------------------------------------- researcher._scrape -> engine.run
\* The first source the engine queries under the configuration.
FirstSearch == IF cfg.has_tavily THEN "tavily"
               ELSE IF cfg.has_serper THEN "serper" ELSE "ddg"

\* _scrape lines 101-104 and engine.run lines 40-44: the engine takes the
\* run's logger and starts with empty chunks and sources_used.
ScrapeBegin(r) ==
    /\ pc[r] = "scrape"
    /\ lines' = Put(lines, r, <<LogEv(r, "info", "Scraping")>>)
    /\ q' = Put(q, r, <<LogEv(r, "info", "Scraping")>>)
    /\ scraper_logger' = r
    /\ chunks' = [chunks EXCEPT ![r] = <<>>]
    /\ used' = [used EXCEPT ![r] = <<>>]
    /\ pc' = [pc EXCEPT ![r] = FirstSearch]
    /\ UNCHANGED <<clock, cfg, state, exc, regVars, report_store, consVars,
                   results, threads, joined, abandoned, iterLen, callVars,
                   stopper, histVars, fn>>

\* The label of a source's block: "=== <label> ===".
Label(src) ==
    CASE src = "Tavily"        -> "TAVILY RESULTS"
      [] src = "Serper"        -> "SERPER RESULTS"
      [] src = "DuckDuckGo"    -> "DUCKDUCKGO RESULTS"
      [] src = "IndiaMART"     -> "INDIAMART"
      [] src = "Alibaba"       -> "ALIBABA"
      [] src = "Made-in-China" -> "MADE-IN-CHINA"
      [] src = "ThomasNet"     -> "THOMASNET"
      [] src = "Europages"     -> "EUROPAGES"

\* A faulty adapter: it goes to the network without looking at the Event.
AdapterCallsUnchecked(ev) == TRUE

\* tavily_search / serper_search / ddg_search: whether the adapter, handed
\* the run's Event, goes to the network at all.
AdapterCalls(ev) == ~SignalSet(ev)

\* One search source of engine.run: the log line, the adapter (which returns
\* [] at once when the Event is set, and [] on any failure), and the block
\* appended when it returned results.
RunSearch(r, src, next) ==
    LET goes == AdapterCalls(state[r].stop_event)
        tgt  == scraper_logger
    IN /\ netcalls' = [netcalls EXCEPT ![r][src] = IF goes THEN @ + 1 ELSE @]
       /\ \E got \in BOOLEAN :
            /\ got => goes
            /\ chunks' = [chunks EXCEPT ![r] = IF got THEN Append(@, Label(src)) ELSE @]
            /\ used' = [used EXCEPT ![r] = IF got THEN Append(@, src) ELSE @]
            /\ LET es == <<LogEv(r, "info", "Searching " \o src)>>
                         \o (IF got THEN <<LogEv(r, "success", src \o " results")>> ELSE <<>>)
               IN /\ lines' = Put(lines, tgt, es)
                  /\ q' = Put(q, tgt, es)
       /\ pc' = [pc EXCEPT ![r] = next]
       /\ UNCHANGED <<clock, cfg, state, exc, regVars, report_store,
                      scraper_logger, consVars, results, threads, joined,
                      abandoned, iterLen, llmcalls, stopper, histVars, fn>>

\* engine.run lines 47-54.
SearchTavily(r) ==
    /\ pc[r] = "tavily"
    /\ RunSearch(r, "Tavily", IF cfg.has_serper THEN "serper" ELSE "ddg")

\* engine.run lines 56-63.
SearchSerper(r) ==
    /\ pc[r] = "serper"
    /\ RunSearch(r, "Serper", "ddg")

\* engine.run lines 65-73: `if not sources_used or True`.
SearchDuckDuckGo(r) ==
    /\ pc[r] = "ddg"
    /\ RunSearch(r, "DuckDuckGo", "dirs")

\* -------------------------------- directories.py: scrape_directories
\* engine.run lines 76-84 and scrape_directories lines 85-110: the results
\* dict is created empty and one thread per directory is started.  A thread
\* of a directory that is not enabled returns from _run without any effect;
\* it is recorded as dead from the start.
ScrapeDirectoriesStart(r) ==
    /\ pc[r] = "dirs"
    /\ lines' = Put(lines, scraper_logger, <<LogEv(r, "info", "Scraping B2B directories")>>)
    /\ q' = Put(q, scraper_logger, <<LogEv(r, "info", "Scraping B2B directories")>>)
    /\ results' = [results EXCEPT ![r] = <<>>]
    /\ threads' = [threads EXCEPT ![r] =
                     [d \in DirNames |-> IF cfg.enabled[d] THEN "started" ELSE "dead"]]
    /\ joined' = [joined EXCEPT ![r] = 0]
    /\ abandoned' = [abandoned EXCEPT ![r] = {}]
    /\ pc' = [pc EXCEPT ![r] = "join"]
    /\ UNCHANGED <<clock, cfg, state, exc, regVars, report_store, scraper_logger,
                   consVars, chunks, used, iterLen, callVars, stopper, histVars, fn>>

\* _run lines 93-98 and scrape_<dir> lines 16-21: both check the Event, then
\* fetch_html issues the one GET of this directory.
DirRun(r, d) ==
    /\ threads[r][d] = "started"
    /\ IF SignalSet(state[r].stop_event)
       THEN /\ threads' = [threads EXCEPT ![r][d] = "dead"]
            /\ UNCHANGED netcalls
       ELSE /\ threads' = [threads EXCEPT ![r][d] = "fetching"]
            /\ netcalls' = [netcalls EXCEPT ![r][d] = @ + 1]
    /\ UNCHANGED <<clock, cfg, pc, state, exc, regVars, report_store,
                   scraper_logger, lines, q, consVars, chunks, used, results,
                   joined, abandoned, iterLen, llmcalls, stopper, histVars, fn>>

\* results[name] = text, under the lock: a new key goes last in the dict.
WriteResult(res, d) == Append(res, d)

\* A faulty adapter: a fetch that yields no text is tried again.
DirFinishRetries(r, d) ==
    /\ threads[r][d] = "fetching"
    /\ \E text \in BOOLEAN :
         /\ results' = [results EXCEPT ![r] = IF text THEN WriteResult(@, d) ELSE @]
         /\ threads' = [threads EXCEPT ![r][d] = IF text THEN "dead" ELSE "started"]
    /\ UNCHANGED <<clock, cfg, pc, state, exc, regVars, report_store,
                   scraper_logger, lines, q, consVars, chunks, used, joined,
                   abandoned, iterLen, callVars, stopper, histVars, fn>>

\* fetch_html returns (None on any failure), extract_text reduces the page,
\* and _run lines 99-101 store the text if there is any.
DirFinish(r, d) ==
    /\ threads[r][d] = "fetching"
    /\ \E text \in BOOLEAN :
         results' = [results EXCEPT ![r] = IF text THEN WriteResult(@, d) ELSE @]
    /\ threads' = [threads EXCEPT ![r][d] = "dead"]
    /\ UNCHANGED <<clock, cfg, pc, state, exc, regVars, report_store,
                   scraper_logger, lines, q, consVars, chunks, used, joined,
                   abandoned, iterLen, callVars, stopper, histVars, fn>>

\* The number of threads, from the one after position j, that are dead.
RECURSIVE DeadRun(_, _)
DeadRun(th, j) ==
    IF j < Len(DIRECTORY_SCRAPERS) /\ th[DIRECTORY_SCRAPERS[j + 1]] = "dead"
    THEN 1 + DeadRun(th, j + 1) ELSE 0

\* scrape_directories lines 111-112: `for t in threads: t.join(timeout=15)`.
\* A join on a dead thread returns at once, so the loop passes every dead
\* thread it meets; on a thread that is still alive the join gives up after
\* the timeout and the loop goes on to the next thread.
JoinThread(r) ==
    /\ pc[r] = "join"
    /\ joined[r] < Len(DIRECTORY_SCRAPERS)
    /\ LET d     == DIRECTORY_SCRAPERS[joined[r] + 1]
           alive == threads[r][d] # "dead"
           n     == DeadRun(threads[r], joined[r])
       IN /\ abandoned' = [abandoned EXCEPT ![r] = IF alive THEN @ \cup {d} ELSE @]
          /\ joined' = [joined EXCEPT ![r] = IF alive THEN @ + 1 ELSE @ + n]
          /\ pc' = [pc EXCEPT ![r] =
                      IF joined'[r] = Len(DIRECTORY_SCRAPERS) THEN "merge" ELSE "join"]
    /\ UNCHANGED <<clock, cfg, state, exc, regVars, report_store, scraper_logger,
                   lines, q, consVars, chunks, used, results, threads, iterLen,
                   callVars, stopper, histVars, fn>>

\* scrape_directories line 114 returns the dict itself; engine.run line 85
\* creates the iterator of dir_results.items().
MergeBegin(r) ==
    /\ pc[r] = "merge"
    /\ iterLen' = [iterLen EXCEPT ![r] = Len(results[r])]
    /\ pc' = [pc EXCEPT ![r] = "iter"]
    /\ UNCHANGED <<clock, cfg, state, exc, regVars, report_store, scraper_logger,
                   lines, q, consVars, chunks, used, results, threads, joined,
                   abandoned, callVars, stopper, histVars, fn>>

\* The blocks and names of the directory entries, in the dict's order.
RECURSIVE Labels(_)
Labels(names) ==
    IF names = <<>> THEN <<>> ELSE <<Label(Head(names))>> \o Labels(Tail(names))

RECURSIVE ScrapedLogs(_, _)
ScrapedLogs(r, names) ==
    IF names = <<>> THEN <<>>
    ELSE <<LogEv(r, "success", Head(names) \o " scraped")>> \o ScrapedLogs(r, Tail(names))

\* A faulty merge: the directory blocks are appended without their names.
MergeDirsUnnamed(cs, us, res) ==
    [chunks |-> cs \o Labels(res), used |-> us]

\* engine.run lines 85-89: the dict entries appended to chunks and
\* sources_used in the order the iterator yields them.
MergeDirs(cs, us, res) ==
    [chunks |-> cs \o Labels(res), used |-> us \o res]

\* engine.run lines 85-100 and _scrape lines 105-112.  A dict that changed
\* size since the iterator was created makes the next() call raise
\* RuntimeError after k entries were handled; _scrape records it in errors.
\* Otherwise every entry is appended and the outcome is stored in the state.
MergeEnd(r) ==
    /\ pc[r] = "iter"
    /\ IF Len(results[r]) # iterLen[r]
       THEN \E k \in 0..iterLen[r] :
              LET es == ScrapedLogs(r, SubSeq(results[r], 1, k))
              IN /\ lines' = Put(Put(lines, scraper_logger, es), r,
                                 <<LogEv(r, "error", "Scrape error")>>)
                 /\ q' = Put(Put(q, scraper_logger, es), r,
                             <<LogEv(r, "error", "Scrape error")>>)
                 /\ state' = [state EXCEPT ![r].errors = Append(@, "RuntimeError")]
                 /\ UNCHANGED <<chunks, used>>
       ELSE LET m  == MergeDirs(chunks[r], used[r], results[r])
                es == ScrapedLogs(r, results[r]) \o
                      (IF m.chunks = <<>>
                       THEN <<LogEv(r, "warn", "No results from any source")>>
                       ELSE <<LogEv(r, "success", "Scraping complete")>>)
            IN /\ chunks' = [chunks EXCEPT ![r] = m.chunks]
               /\ used' = [used EXCEPT ![r] = m.used]
               /\ lines' = Put(lines, scraper_logger, es)
               /\ q' = Put(q, scraper_logger, es)
               /\ state' = [state EXCEPT
                              ![r].scrape_summary = IF m.chunks = <<>> THEN <<>> ELSE m.chunks,
                              ![r].sources_used = IF m.chunks = <<>> THEN <<>> ELSE m.used]
    /\ pc' = [pc EXCEPT ![r] = "after_scrape"]
    /\ UNCHANGED <<clock, cfg, exc, regVars, report_store, scraper_logger,
                   consVars, results, threads, joined, abandoned, iterLen,
                   callVars, stopper, histVars, fn>>

\* researcher.run lines 63-64: return early when stopped after scraping.
ResearcherCheckScrape(r) ==
    /\ pc[r] = "after_scrape"
    /\ pc' = [pc EXCEPT ![r] = IF is_stopped(state[r]) THEN "finally" ELSE "extract"]
    /\ stoppedAt' = [stoppedAt EXCEPT ![r] = IF is_stopped(state[r]) THEN "scrape" ELSE @]
    /\ UNCHANGED <<clock, cfg, state, exc, regVars, report_store, scraper_logger,
                   lines, q, consVars, engineVars, callVars, stopper,
                   stopInScrape, linSet, linRet, fn>>

\* A faulty guard: the extraction stage does not notice the empty summary.
NoScrapeDataIgnored(st) == FALSE

\* --------------------------------------- researcher._extract_suppliers
\* A faulty handler: the rate limit is logged but not recorded.
RateLimitErrorDropped(errs) == errs

\* state.errors.append(f"RateLimit: {e}") in the RateLimitSkip handlers of
\* _extract_suppliers (line 143) and of the writer (line 71).
RateLimitError(errs) == Append(errs, "RateLimit")

\* Line 117: `if not state.scrape_summary`.
NoScrapeData(st) == st.scrape_summary = <<>>

\* Lines 114-149, then researcher.run lines 69-74 (mark_handoff, done log).
\* An empty summary returns before any LLM call.
ExtractSuppliers(r, env) ==
    /\ pc[r] = "extract"
    /\ LET st   == state[r]
           fin  == <<LogEv(r, "success", "ResearcherAgent done")>>
           pre  == <<LogEv(r, "info", "Extracting structured suppliers")>>
       IN IF NoScrapeData(st)
          THEN /\ state' = [state EXCEPT ![r].handoff_done = TRUE]
               /\ lines' = Put(lines, r, <<LogEv(r, "warn", "No scrape data")>> \o fin)
               /\ q' = Put(q, r, <<LogEv(r, "warn", "No scrape data")>> \o fin)
               /\ UNCHANGED llmcalls
          ELSE IF SignalSet(st.stop_event)
          THEN /\ state' = [state EXCEPT ![r].stopped = TRUE,
                                         ![r].handoff_done = TRUE]
               /\ lines' = Put(lines, r, pre \o fin)
               /\ q' = Put(q, r, pre \o fin)
               /\ UNCHANGED llmcalls
          ELSE /\ llmcalls' = [llmcalls EXCEPT ![r] = @ \cup {"extract"}]
               /\ \E o \in env.extract :
                    CASE o = "list" ->
                           \E sl \in env.suppliers :
                             /\ state' = [state EXCEPT ![r].raw_results = sl,
                                                       ![r].handoff_done = TRUE]
                             /\ lines' = Put(lines, r, pre \o <<Ev("suppliers", r, "", "")>> \o fin)
                             /\ q' = Put(q, r, pre \o <<Ev("suppliers", r, "", "")>> \o fin)
                      [] o = "nonlist" ->
                           /\ state' = [state EXCEPT ![r].handoff_done = TRUE]
                           /\ lines' = Put(lines, r, pre \o <<LogEv(r, "warn", "LLM returned non-list")>> \o fin)
                           /\ q' = Put(q, r, pre \o <<LogEv(r, "warn", "LLM returned non-list")>> \o fin)
                      [] o = "ratelimit" ->
                           /\ state' = [state EXCEPT ![r].errors = RateLimitError(@),
                                                     ![r].handoff_done = TRUE]
                           /\ lines' = Put(lines, r, pre \o <<LogEv(r, "warn", "Rate limit on supplier extraction")>> \o fin)
                           /\ q' = Put(q, r, pre \o <<LogEv(r, "warn", "Rate limit on supplier extraction")>> \o fin)
                      [] o = "error" ->
                           /\ state' = [state EXCEPT ![r].errors = Append(@, "Exception"),
                                                     ![r].handoff_done = TRUE]
                           /\ lines' = Put(lines, r, pre \o <<LogEv(r, "error", "Extraction error")>> \o fin)
                           /\ q' = Put(q, r, pre \o <<LogEv(r, "error", "Extraction error")>> \o fin)
    /\ pc' = [pc EXCEPT ![r] = "orch_check"]
    /\ UNCHANGED <<clock, cfg, exc, regVars, report_store, scraper_logger,
                   consVars, engineVars, netcalls, stopper, histVars, fn>>

\* orchestrator.run line 88: the writer runs only if the run is not stopped.
OrchCheck(r) ==
    /\ pc[r] = "orch_check"
    /\ pc' = [pc EXCEPT ![r] = IF is_stopped(state[r]) THEN "finally" ELSE "writer"]
    /\ stoppedAt' = [stoppedAt EXCEPT ![r] = IF is_stopped(state[r]) THEN "extract" ELSE @]
    /\ UNCHANGED <<clock, cfg, state, exc, regVars, report_store, scraper_logger,
                   lines, q, consVars, engineVars, callVars, stopper,
                   stopInScrape, linSet, linRet, fn>>

\* ---------------------------------------------------- writer.py: run
\* The fallback listing joins s.get('products', []): a record whose products
\* is null makes the join raise TypeError inside the RateLimitSkip handler.
FallbackRaises(suppliers) ==
    \E i \in 1..Len(suppliers) : suppliers[i] = "null"

\* A faulty writer: the empty supplier list is not special-cased.
NoSupplierDataIgnored(st) == FALSE

\* Line 34: `if not suppliers`.
NoSupplierData(st) == st.raw_results = <<>>

WriterRun(r, env) ==
    /\ pc[r] = "writer"
    /\ LET st   == state[r]
           pre  == <<LogEv(r, "system", "WriterAgent starting")>>
           wr   == <<LogEv(r, "info", "Writing report")>>
           fin  == <<LogEv(r, "system", "WriterAgent done")>>
       IN IF NoSupplierData(st)
          THEN /\ state' = [state EXCEPT ![r].final_report = "No suppliers found"]
               /\ lines' = Put(lines, r, pre \o <<LogEv(r, "warn", "No supplier data")>>)
               /\ q' = Put(q, r, pre \o <<LogEv(r, "warn", "No supplier data")>>)
               /\ UNCHANGED <<exc, llmcalls>>
          ELSE IF SignalSet(st.stop_event)
          THEN /\ state' = [state EXCEPT ![r].stopped = TRUE]
               /\ lines' = Put(lines, r, pre \o wr \o fin)
               /\ q' = Put(q, r, pre \o wr \o fin)
               /\ UNCHANGED <<exc, llmcalls>>
          ELSE /\ llmcalls' = [llmcalls EXCEPT ![r] = @ \cup {"write"}]
               /\ \E o \in env.writer :
                    CASE o = "ok" ->
                           /\ state' = [state EXCEPT ![r].final_report = "llm"]
                           /\ lines' = Put(lines, r, pre \o wr \o <<LogEv(r, "success", "Report written")>> \o fin)
                           /\ q' = Put(q, r, pre \o wr \o <<LogEv(r, "success", "Report written")>> \o fin)
                           /\ exc' = exc
                      [] o = "ratelimit" /\ FallbackRaises(st.raw_results) ->
                           /\ state' = state
                           /\ lines' = Put(lines, r, pre \o wr \o <<LogEv(r, "warn", "Rate limit on report generation")>>)
                           /\ q' = Put(q, r, pre \o wr \o <<LogEv(r, "warn", "Rate limit on report generation")>>)
                           /\ exc' = [exc EXCEPT ![r] = "TypeError"]
                      [] o = "ratelimit" /\ ~FallbackRaises(st.raw_results) ->
                           /\ state' = [state EXCEPT ![r].final_report = "fallback",
                                                     ![r].errors = RateLimitError(@)]
                           /\ lines' = Put(lines, r, pre \o wr \o <<LogEv(r, "warn", "Rate limit on report generation")>> \o fin)
                           /\ q' = Put(q, r, pre \o wr \o <<LogEv(r, "warn", "Rate limit on report generation")>> \o fin)
                           /\ exc' = exc
                      [] o = "error" ->
                           /\ state' = [state EXCEPT ![r].errors = Append(@, "Exception")]
                           /\ lines' = Put(lines, r, pre \o wr \o <<LogEv(r, "error", "Writer error")>> \o fin)
                           /\ q' = Put(q, r, pre \o wr \o <<LogEv(r, "error", "Writer error")>> \o fin)
                           /\ exc' = exc
    /\ pc' = [pc EXCEPT ![r] = "finally"]
    /\ UNCHANGED <<clock, cfg, regVars, report_store, scraper_logger, consVars,
                   engineVars, netcalls, stopper, histVars, fn>>

\* A faulty finally block: releasing the entry also clears the run's Event.
OrchFinallyClears(r) ==
    /\ pc[r] = "finally"
    /\ stop_events' = cleanup_stop(stop_events, state[r].session_id)
    /\ is_set' = [is_set EXCEPT ![r] = FALSE]
    /\ pc' = [pc EXCEPT ![r] = IF exc[r] # "" THEN "except" ELSE "orch_stopped"]
    /\ UNCHANGED <<clock, cfg, state, exc, report_store, scraper_logger,
                   lines, q, consVars, engineVars, callVars, stopper, histVars, fn>>

\* A faulty orchestrator.run: cleanup_stop follows the try block instead of
\* standing in a finally, so an exception skips it.
OrchFinallyOnSuccess(r) ==
    /\ pc[r] = "finally"
    /\ stop_events' = IF exc[r] # "" THEN stop_events
                      ELSE cleanup_stop(stop_events, state[r].session_id)
    /\ pc' = [pc EXCEPT ![r] = IF exc[r] # "" THEN "except" ELSE "orch_stopped"]
    /\ UNCHANGED <<clock, cfg, state, exc, is_set, report_store, scraper_logger,
                   lines, q, consVars, engineVars, callVars, stopper, histVars, fn>>

\* ------------------------------- orchestrator.run, lines 90 to 112
\* finally: cleanup_stop(state.session_id); a propagating exception then
\* leaves orchestrator.run.
OrchFinally(r) ==
    /\ pc[r] = "finally"
    /\ stop_events' = cleanup_stop(stop_events, state[r].session_id)
    /\ pc' = [pc EXCEPT ![r] = IF exc[r] # "" THEN "except" ELSE "orch_stopped"]
    /\ UNCHANGED <<clock, cfg, state, exc, is_set, report_store, scraper_logger,
                   lines, q, consVars, engineVars, callVars, stopper, histVars, fn>>

\* Lines 93-98: the stopped event if the run is stopped; execution goes on.
OrchStopped(r) ==
    /\ pc[r] = "orch_stopped"
    /\ LET es == (IF is_stopped(state[r])
                  THEN <<LogEv(r, "warn", "Pipeline stopped by user"),
                         Ev("stopped", r, "", "")>>
                  ELSE <<>>)
                 \o <<LogEv(r, "success", "Pipeline complete")>>
       IN /\ lines' = Put(lines, r, es)
          /\ q' = Put(q, r, es)
    /\ pc' = [pc EXCEPT ![r] = "store"]
    /\ UNCHANGED <<clock, cfg, state, exc, regVars, report_store, scraper_logger,
                   consVars, engineVars, callVars, stopper, histVars, fn>>

\* orchestrator.py line 18.
REPORT_STORE_MAX == 200

\* `session_id in _report_store`.
HasKey(store, sid) == \E i \in DOMAIN store : store[i].session_id = sid

\* _store_report lines 22-24: a store that is full loses its oldest entry.
evict_oldest(store) ==
    IF Len(store) >= REPORT_STORE_MAX THEN Tail(store) ELSE store

\* _store_report line 25: the key is assigned (an existing key keeps its
\* place in the dict).
put_report(store, sid, data) ==
    IF HasKey(store, sid)
    THEN [i \in 1..Len(store) |->
             IF store[i].session_id = sid THEN data ELSE store[i]]
    ELSE Append(store, data)

\* _store_report run without interruption.
store_report(store, sid, data) == put_report(evict_oldest(store), sid, data)

\* Lines 100-104 and _store_report lines 22-24.  _store_report takes no
\* lock, so the workers of other runs can run between its size check and its
\* assignment.
OrchStore(r) ==
    /\ pc[r] = "store"
    /\ report_store' = evict_oldest(report_store)
    /\ pc' = [pc EXCEPT ![r] = "store_put"]
    /\ UNCHANGED <<clock, cfg, state, exc, regVars, scraper_logger, lines, q,
                   consVars, engineVars, callVars, stopper, histVars, fn>>

\* _store_report line 25: the report record goes to the in-memory store.
OrchStorePut(r) ==
    /\ pc[r] = "store_put"
    /\ report_store' = put_report(report_store, state[r].session_id,
                          [session_id |-> state[r].session_id, by |-> r,
                           report |-> state[r].final_report])
    /\ pc' = [pc EXCEPT ![r] = "done"]
    /\ UNCHANGED <<clock, cfg, state, exc, regVars, scraper_logger, lines, q,
                   consVars, engineVars, callVars, stopper, histVars, fn>>

\* Lines 106-112: logger.done(...) and the return to run_pipeline.
OrchDone(r) ==
    /\ pc[r] = "done"
    /\ lines' = Put(lines, r, <<Ev("done", r, "", state[r].final_report)>>)
    /\ q' = Put(q, r, <<Ev("done", r, "", state[r].final_report)>>)
    /\ pc' = [pc EXCEPT ![r] = "persist"]
    /\ UNCHANGED <<clock, cfg, state, exc, regVars, report_store, scraper_logger,
                   consVars, engineVars, callVars, stopper, histVars, fn>>

\* ------------------------------------------- app.py: run_pipeline
\* Lines 74-86: the persistence step; its failure is logged as a warning.
Persist(r, env) ==
    /\ pc[r] = "persist"
    /\ \E ok \in env.persist :
         LET es == IF ok THEN <<>> ELSE <<LogEv(r, "warn", "DB save error")>>
         IN /\ lines' = Put(lines, r, es)
            /\ q' = Put(q, r, es)
    /\ pc' = [pc EXCEPT ![r] = "sentinel"]
    /\ UNCHANGED <<clock, cfg, state, exc, regVars, report_store, scraper_logger,
                   consVars, engineVars, callVars, stopper, histVars, fn>>

\* A faulty run_pipeline: the sentinel is put on the success path only, so an
\* exception ends the worker after the error event.
PipelineExceptNoSentinel(r) ==
    /\ pc[r] = "except"
    /\ lines' = Put(lines, r, <<Ev("error", r, "", exc[r])>>)
    /\ q' = Put(q, r, <<Ev("error", r, "", exc[r])>>)
    /\ exc' = [exc EXCEPT ![r] = ""]
    /\ pc' = [pc EXCEPT ![r] = "end"]
    /\ UNCHANGED <<clock, cfg, state, regVars, report_store, scraper_logger,
                   consVars, engineVars, callVars, stopper, histVars, fn>>

\* Lines 87-88: an exception that left orchestrator.run becomes an error event.
PipelineExcept(r) ==
    /\ pc[r] = "except"
    /\ lines' = Put(lines, r, <<Ev("error", r, "", exc[r])>>)
    /\ q' = Put(q, r, <<Ev("error", r, "", exc[r])>>)
    /\ exc' = [exc EXCEPT ![r] = ""]
    /\ pc' = [pc EXCEPT ![r] = "sentinel"]
    /\ UNCHANGED <<clock, cfg, state, regVars, report_store, scraper_logger,
                   consVars, engineVars, callVars, stopper, histVars, fn>>

\* Lines 89-90: finally: q.put(None).
PutSentinel(r) ==
    /\ pc[r] = "sentinel"
    /\ q' = [q EXCEPT ![r] = Append(@, Sentinel)]
    /\ pc' = [pc EXCEPT ![r] = "end"]
    /\ UNCHANGED <<clock, cfg, state, exc, regVars, report_store, scraper_logger,
                   lines, consVars, engineVars, callVars, stopper, histVars, fn>>

\* A faulty consumer: it takes the newest item of the queue (a LifoQueue).
GenerateNewest(r) ==
    /\ ~cdone[r]
    /\ q[r] # <<>>
    /\ q' = [q EXCEPT ![r] = SubSeq(@, 1, Len(@) - 1)]
    /\ IF q[r][Len(q[r])] = Sentinel
       THEN /\ cdone' = [cdone EXCEPT ![r] = TRUE]
            /\ UNCHANGED relayed
       ELSE /\ relayed' = [relayed EXCEPT ![r] = Append(@, q[r][Len(q[r])])]
            /\ UNCHANGED cdone
    /\ UNCHANGED <<clock, cfg, pc, state, exc, regVars, report_store,
                   scraper_logger, lines, engineVars, callVars, stopper, histVars, fn>>

\* Lines 94-99: generate() takes one item; None ends the loop.
Generate(r) ==
    /\ ~cdone[r]
    /\ q[r] # <<>>
    /\ q' = [q EXCEPT ![r] = Tail(@)]
    /\ IF Head(q[r]) = Sentinel
       THEN /\ cdone' = [cdone EXCEPT ![r] = TRUE]
            /\ UNCHANGED relayed
       ELSE /\ relayed' = [relayed EXCEPT ![r] = Append(@, Head(q[r]))]
            /\ UNCHANGED cdone
    /\ UNCHANGED <<clock, cfg, pc, state, exc, regVars, report_store,
                   scraper_logger, lines, engineVars, callVars, stopper, histVars, fn>>

\* ------------------------------- app.py: /api/stop -> request_stop
\* Worker positions inside researcher._scrape.
ScrapingPcs == {"tavily", "serper", "ddg", "dirs", "join", "merge", "iter"}

\* The session ids a stop client can name: those of the runs created so far
\* (an id no run ever had finds nothing, like the id of a finished run).
SessionIds == {state[r].session_id : r \in Runs} \ {None}

\* request_stop lines 26-27: the lookup under the lock.  Had the whole call
\* been one atomic step, it would set the Event and fix its answer here.
StopLookup(s, id) ==
    /\ stopper[s].pc = "idle"
    /\ stopper' = [stopper EXCEPT ![s] =
                     [pc |-> "got", id |-> id,
                      ev |-> lookup_stop(stop_events, id), ret |-> FALSE]]
    /\ linSet' = [r \in Runs |-> linSet[r] \/ r = lookup_stop(stop_events, id)]
    /\ linRet' = [linRet EXCEPT ![s] = lookup_stop(stop_events, id) # None]
    /\ UNCHANGED <<clock, cfg, pc, state, exc, regVars, report_store,
                   scraper_logger, lines, q, consVars, engineVars, callVars,
                   stopInScrape, stoppedAt, fn>>

\* A faulty request_stop: it sets every registered Event.
StopTargetsAll(ev) == {stop_events[i] : i \in Ids} \ {None}

\* The Events request_stop sets, given what the lookup found.
StopTargets(ev) == IF ev # None THEN {ev} ELSE {}

\* A faulty request_stop: it sets the Event it found and answers False.
StopFoundNever(ev) == FALSE

\* A faulty request_stop: it answers True whatever the lookup found.
StopFoundAlways(ev) == TRUE

\* request_stop lines 28-31: `return True` after ev.set(), else `return False`.
StopFound(ev) == ev # None

\* A faulty request_stop: it answers from its first lookup but sets the Event
\* a second lookup finds.
StopSetRereads(s) ==
    /\ stopper[s].pc = "got"
    /\ is_set' = [r \in Runs |->
                    is_set[r] \/ r \in StopTargets(lookup_stop(stop_events, stopper[s].id))]
    /\ stopper' = [stopper EXCEPT ![s] =
                     [pc |-> "idle", id |-> stopper[s].id, ev |-> None,
                      ret |-> StopFound(stopper[s].ev)]]
    /\ UNCHANGED <<clock, cfg, pc, state, exc, stop_events, report_store,
                   scraper_logger, lines, q, consVars, engineVars, callVars,
                   histVars, fn>>

\* request_stop lines 28-31 and stop_endpoint line 117: set the Event found
\* and answer {"stopped": found, "session_id": id}.
StopSet(s) ==
    /\ stopper[s].pc = "got"
    /\ is_set' = [r \in Runs |-> is_set[r] \/ r \in StopTargets(stopper[s].ev)]
    /\ stopper' = [stopper EXCEPT ![s] =
                     [pc |-> "idle", id |-> stopper[s].id, ev |-> None,
                      ret |-> StopFound(stopper[s].ev)]]
    /\ stopInScrape' = [r \in Runs |->
                          \/ stopInScrape[r]
                          \/ /\ StopFound(stopper[s].ev)
                             /\ state[r].session_id = stopper[s].id
                             /\ pc[r] \in ScrapingPcs]
    /\ UNCHANGED <<clock, cfg, pc, state, exc, stop_events, report_store,
                   scraper_logger, lines, q, consVars, engineVars, callVars,
                   stoppedAt, linSet, linRet, fn>>

\* --------------------------------------------------------- specifications
\* What the collaborators (LLM, persistence) may answer in a specification.
FullEnv == [parse |-> ParseOutcomes, extract |-> ExtractOutcomes,
            suppliers |-> SupplierLists, writer |-> WriterOutcomes,
            persist |-> BOOLEAN]

\* The worker thread of a run: run_pipeline -> orchestrator.run -> stages.
Core(r, env) ==
    \/ query_endpoint(r)
    \/ OrchInit(r)
    \/ OrchRegister(r)
    \/ ParseQuery(r, env)
    \/ ResearcherCheckParse(r)
    \/ ScrapeBegin(r)
    \/ SearchDuckDuckGo(r)
    \/ ScrapeDirectoriesStart(r)
    \/ JoinThread(r)
    \/ MergeBegin(r)
    \/ MergeEnd(r)
    \/ ResearcherCheckScrape(r)
    \/ ExtractSuppliers(r, env)
    \/ OrchCheck(r)
    \/ WriterRun(r, env)
    \/ OrchFinally(r)
    \/ OrchStopped(r)
    \/ OrchStore(r)
    \/ OrchStorePut(r)
    \/ OrchDone(r)
    \/ Persist(r, env)
    \/ PipelineExcept(r)
    \/ PutSentinel(r)

KeyedSearch(r) == SearchTavily(r) \/ SearchSerper(r)

Worker(r, env) == Core(r, env) \/ KeyedSearch(r)

DirThread(r) == \E d \in DirNames : DirRun(r, d) \/ DirFinish(r, d)

\* The /api/stop requests of a set of clients.
StopEndpoint(clients) ==
    \E s \in clients : (\E id \in SessionIds : StopLookup(s, id)) \/ StopSet(s)

\* The first stop client alone.
OneClient == {CHOOSE s \in StopClients : \A t \in StopClients : s <= t}

\* Both keyed sources configured.
Keyed(c) == c.has_tavily /\ c.has_serper

\* One run end to end, every answer of the collaborators, one stop client.
Init ==
    /\ InitCommon
    /\ clock = MaxClock
    /\ cfg \in {c \in Configs(MaxPipelineDirs) : Keyed(c)}

Next ==
    \/ Worker(1, FullEnv)
    \/ DirThread(1)
    \/ StopEndpoint(OneClient)

Spec == Init /\ [][Next]_vars

\* Several runs at once, from a clock that can advance between them.  The
\* LLM is down: the parsing call of a run fails unless the run was stopped
\* before it, so no run of this specification reaches the scraper.
DownEnv == [parse |-> {"error"}, extract |-> {}, suppliers |-> {},
            writer |-> {}, persist |-> BOOLEAN]

InitMulti ==
    /\ InitCommon
    /\ clock = 1
    /\ cfg \in {c \in Configs(0) : Keyed(c)}

\* The worker of a run while the LLM is down.
MultiWorker(r) ==
    \/ query_endpoint(r)
    \/ OrchInit(r)
    \/ OrchRegister(r)
    \/ ParseQuery(r, DownEnv)
    \/ ResearcherCheckParse(r)
    \/ OrchFinally(r)
    \/ OrchStopped(r)
    \/ OrchStore(r)
    \/ OrchStorePut(r)
    \/ OrchDone(r)
    \/ Persist(r, DownEnv)
    \/ PipelineExcept(r)
    \/ PutSentinel(r)

NextMulti ==
    \/ \E r \in Runs : MultiWorker(r)
    \/ StopEndpoint(StopClients)

MultiSpec == InitMulti /\ [][NextMulti]_vars

\* The scraping stage of one run under every configuration: the run has
\* registered its Event, parsed the query and passed the check of
\* researcher.run line 58.
ParsedState(sid, ev) ==
    [NewPipelineState(sid) EXCEPT !.stop_event = ev,
                                  !.parsed_product = "llm",
                                  !.parsed_location = "llm"]

ParsedEntries(r) ==
    StartEntries(r) \o
    <<LogEv(r, "system", "ResearcherAgent starting"),
      LogEv(r, "info", "Parsing query"),
      LogEv(r, "info", "Product"), LogEv(r, "info", "Location")>>

AtScrape(r) ==
    /\ clock = MaxClock
    /\ pc = [x \in Runs |-> IF x = r THEN "scrape" ELSE "idle"]
    /\ state = [x \in Runs |-> IF x = r THEN ParsedState(MaxClock, r)
                                         ELSE NewPipelineState(None)]
    /\ exc = [x \in Runs |-> ""]
    /\ stop_events = [i \in Ids |-> IF i = MaxClock THEN r ELSE None]
    /\ is_set = [x \in Runs |-> FALSE]
    /\ report_store = <<>>
    /\ scraper_logger = r
    /\ lines = [x \in Runs |-> IF x = r THEN ParsedEntries(r) ELSE <<>>]
    /\ q = [x \in Runs |-> IF x = r THEN ParsedEntries(r) ELSE <<>>]
    /\ relayed = [x \in Runs |-> <<>>]
    /\ cdone = [x \in Runs |-> FALSE]
    /\ chunks = [x \in Runs |-> <<>>]
    /\ used = [x \in Runs |-> <<>>]
    /\ results = [x \in Runs |-> <<>>]
    /\ threads = [x \in Runs |-> [d \in DirNames |-> "none"]]
    /\ joined = [x \in Runs |-> 0]
    /\ abandoned = [x \in Runs |-> {}]
    /\ iterLen = [x \in Runs |-> 0]
    /\ netcalls = [x \in Runs |-> [src \in Sources |-> 0]]
    /\ llmcalls = [x \in Runs |-> IF x = r THEN {"parse"} ELSE {}]
    /\ stopper = [s \in StopClients |-> IdleStopper]
    /\ stopInScrape = [x \in Runs |-> FALSE]
    /\ stoppedAt = [x \in Runs |-> ""]
    /\ linSet = [x \in Runs |-> FALSE]
    /\ linRet = [s \in StopClients |-> FALSE]
    /\ fn = NoCall

InitScrape == cfg \in Configs(MaxScrapeDirs) /\ AtScrape(1)

NextScrape ==
    \/ ScrapeBegin(1)
    \/ KeyedSearch(1)
    \/ SearchDuckDuckGo(1)
    \/ ScrapeDirectoriesStart(1)
    \/ JoinThread(1)
    \/ MergeBegin(1)
    \/ MergeEnd(1)
    \/ DirThread(1)
    \/ StopEndpoint(OneClient)

ScrapeSpec == InitScrape /\ [][NextScrape]_vars

\* One run with its consumer, under fair scheduling of the worker thread and
\* of the consumer.  No key is configured, so the engine starts at DuckDuckGo,
\* and the first directory is enabled.
\* The directory threads and the stop client get no fairness: the worker does
\* not wait for either (the join gives up on a thread after its timeout).
FairEnv == [parse |-> {"ok", "error"}, extract |-> {"list"},
            suppliers |-> {<<"full">>}, writer |-> {"ok"}, persist |-> BOOLEAN]

Unkeyed(c) == c.tavily_key = <<>> /\ c.serper_key = <<>>

InitFair ==
    /\ InitCommon
    /\ clock = MaxClock
    /\ cfg \in {c \in Configs(MaxPipelineDirs) :
                   Unkeyed(c) /\ c.enabled[DIRECTORY_SCRAPERS[1]]}

NextFair ==
    \/ Core(1, FairEnv)
    \/ DirThread(1)
    \/ Generate(1)
    \/ StopEndpoint(OneClient)

FairSpec ==
    /\ InitFair
    /\ [][NextFair]_vars
    /\ WF_vars(Core(1, FairEnv))
    /\ WF_vars(Generate(1))

\* Several runs at once on the one orchestrator, each with its own queue
\* and logger, no key configured and no stop request.  The first run is
\* served by the LLM (which answers the extraction call with something that
\* is not a list) and goes through the scraper; for the other runs the LLM
\* is down, as in MultiSpec.
CrossEnv == [parse |-> {"ok", "error"}, extract |-> {"nonlist"},
             suppliers |-> {}, writer |-> {}, persist |-> {TRUE}]

InitCross ==
    /\ InitCommon
    /\ clock = 1
    /\ cfg \in {c \in Configs(MaxPipelineDirs) : Unkeyed(c)}

NextCross ==
    \/ Core(1, CrossEnv)
    \/ DirThread(1)
    \/ \E r \in Runs \ {1} : Core(r, DownEnv)

CrossSpec == InitCross /\ [][NextCross]_vars

\* Several runs at once with the LLM down, as in MultiSpec, and one stop
\* client, in a process whose report store holds the reports of earlier
\* sessions and is full or within MaxFree entries of being full.
MaxFree == 1

\* The reports of n earlier sessions, the oldest first.
OldReports(n) ==
    [i \in 1..n |-> [session_id |-> 0 - i, by |-> None, report |-> "old"]]

InitStore ==
    /\ InitRuns
    /\ fn = NoCall
    /\ clock = 1
    /\ cfg \in {c \in Configs(0) : Keyed(c)}
    /\ report_store \in {OldReports(n) :
                           n \in (REPORT_STORE_MAX - MaxFree)..REPORT_STORE_MAX}

NextStore ==
    \/ \E r \in Runs : MultiWorker(r)
    \/ StopEndpoint(OneClient)

StoreSpec == InitStore /\ [][NextStore]_vars

\* The scraping stage of one run, no key configured and no stop request,
\* under every enable-map of at most MaxScrapeDirs directories and every
\* scrape_limit from 1 to MaxScrapeDirs.
InitLimit ==
    /\ cfg \in {[c EXCEPT !.scrape_limit = l] :
                  c \in {x \in Configs(MaxScrapeDirs) : Unkeyed(x)},
                  l \in 1..MaxScrapeDirs}
    /\ AtScrape(1)

NextLimit ==
    \/ ScrapeBegin(1)
    \/ SearchDuckDuckGo(1)
    \/ ScrapeDirectoriesStart(1)
    \/ JoinThread(1)
    \/ MergeBegin(1)
    \/ MergeEnd(1)
    \/ DirThread(1)

LimitSpec == InitLimit /\ [][NextLimit]_vars

\* ------------------------- researcher._extract_suppliers: the prompt
\* Line 126: the number of characters of the summary the prompt carries.
SUMMARY_CAP == 12000

\* Summaries are tried up to MaxOver characters long and within MaxOver
\* characters of the cap on either side.
MaxOver == 30

SummaryLens ==
    (0..MaxOver) \cup ((SUMMARY_CAP - MaxOver)..(SUMMARY_CAP + MaxOver))

\* A text of n characters whose content depends on the position.
TextOfLen(n) == [i \in 1..n |-> i % 7]

\* A faulty slice: the whole text.
SliceAll(text, n) == text

\* Python text[:n] for n >= 0: never raises, whatever the length.
Slice(text, n) == SubSeq(text, 1, IF Len(text) < n THEN Len(text) ELSE n)

\* Lines 121-127: the prompt's raw data is state.scrape_summary[:12000].
ExtractPrompt ==
    /\ fn.op = "summary"
    /\ fn' = [fn EXCEPT !.op = "prompt", !.out = Slice(fn.text, SUMMARY_CAP)]
    /\ UNCHANGED pipeVars

\* Lines 128-149: the call and its handlers; whatever the collaborator does
\* with the prompt (an answer, a 429, any other error, e.g. a request that
\* is too large), _extract_suppliers returns the state.
ExtractAnswer ==
    /\ fn.op = "prompt"
    /\ \E o \in ExtractOutcomes :
         fn' = [fn EXCEPT !.op = IF o \in {"list", "nonlist"} THEN "answered"
                                 ELSE "recorded"]
    /\ UNCHANGED pipeVars

InitPrompt ==
    /\ InitRuns
    /\ report_store = <<>>
    /\ clock = 1
    /\ cfg \in {c \in Configs(0) : Unkeyed(c)}
    /\ fn \in {[op |-> "summary", text |-> TextOfLen(n), max_chars |-> SUMMARY_CAP,
                out |-> <<>>] : n \in SummaryLens \ {0}}

NextPrompt == ExtractPrompt \/ ExtractAnswer

PromptSpec == InitPrompt /\ [][NextPrompt]_vars

\* --------------------------------------- scraper/parser.py: extract_text
\* A page is a sequence of characters and tags: a letter, a newline, and a
\* tag, which separates two text nodes.  Pages have at most MaxLen of them.
MaxLen == 5

TAG == "<br>"
PageChars == {"a", "\n", TAG}
Whitespace == {"\n", " "}

Pages == UNION {[1..n -> PageChars] : n \in 0..MaxLen}

\* The text nodes of a page, in document order.
RECURSIVE TextNodes(_, _)
TextNodes(html, cur) ==
    IF html = <<>> THEN <<cur>>
    ELSE IF Head(html) = TAG THEN <<cur>> \o TextNodes(Tail(html), <<>>)
    ELSE TextNodes(Tail(html), Append(cur, Head(html)))

\* str.strip().
RECURSIVE StripLeft(_)
StripLeft(s) ==
    IF s # <<>> /\ Head(s) \in Whitespace THEN StripLeft(Tail(s)) ELSE s

RECURSIVE StripRight(_)
StripRight(s) ==
    IF s # <<>> /\ s[Len(s)] \in Whitespace
    THEN StripRight(SubSeq(s, 1, Len(s) - 1)) ELSE s

Strip(s) == StripRight(StripLeft(s))

\* soup.get_text(separator="\n", strip=True): every text node stripped, the
\* empty ones dropped, the rest joined by a newline.
RECURSIVE JoinStripped(_)
JoinStripped(nodes) ==
    IF nodes = <<>> THEN <<>>
    ELSE LET h    == Strip(Head(nodes))
             rest == JoinStripped(Tail(nodes))
         IN IF h = <<>> THEN rest
            ELSE IF rest = <<>> THEN h
            ELSE h \o <<"\n">> \o rest

\* The number of newlines a text starts with.
RECURSIVE LeadingNewlines(_)
LeadingNewlines(s) ==
    IF s # <<>> /\ Head(s) = "\n" THEN 1 + LeadingNewlines(Tail(s)) ELSE 0

\* re.sub(r"\n{3,}", "\n\n", text).
RECURSIVE CollapseNewlines(_)
CollapseNewlines(s) ==
    IF s = <<>> THEN <<>>
    ELSE LET k == LeadingNewlines(s)
         IN IF k = 0 THEN <<Head(s)>> \o CollapseNewlines(Tail(s))
            ELSE (IF k >= 3 THEN <<"\n", "\n">> ELSE SubSeq(s, 1, k))
                 \o CollapseNewlines(SubSeq(s, k + 1, Len(s)))

\* Lines 29-37: parse, take the text, collapse blank lines, truncate.
extract_text(html, max_chars) ==
    Slice(CollapseNewlines(JoinStripped(TextNodes(html, <<>>))), max_chars)

\* extract_text applied to a page.
ExtractOnce ==
    /\ fn.op = "page"
    /\ fn' = [fn EXCEPT !.op = "once",
                        !.out = <<extract_text(fn.text, fn.max_chars)>>]
    /\ UNCHANGED pipeVars

\* extract_text applied to its own output.
ExtractAgain ==
    /\ fn.op = "once"
    /\ fn' = [fn EXCEPT !.op = "twice",
                        !.out = Append(@, extract_text(fn.out[1], fn.max_chars))]
    /\ UNCHANGED pipeVars

InitText ==
    /\ InitRuns
    /\ report_store = <<>>
    /\ clock = 1
    /\ cfg \in {c \in Configs(0) : Unkeyed(c)}
    /\ fn \in {[op |-> "page", text |-> t, max_chars |-> m, out |-> <<>>] :
                 t \in Pages, m \in 1..MaxLen}

NextText == ExtractOnce \/ ExtractAgain

TextSpec == InitText /\ [][NextText]_vars

\* -------------------------------------------------------------- properties
\* The entries of a given type a run's logger has emitted (each _emit appends
\* to lines and puts on the queue).
Emitted(r, type) == CountTypes(lines[r], {type})

HasLog(r, level, msg) == LogEv(r, level, msg) \in SeqToSet(lines[r])

SearchNames == {"Tavily", "Serper", "DuckDuckGo"}

\* engine.run of the run was called and has returned or raised.
EngineLeft(r) ==
    /\ pc[r] \notin ScrapingPcs \cup {"idle", "run", "register", "parse",
                                      "after_parse", "scrape"}
    /\ HasLog(r, "info", "Scraping B2B directories")

\* C1: once the worker of a run has put the sentinel, the events it pushed
\* before it hold exactly one terminal marker (done, stopped or error).
C1_OneTerminalMarker ==
    \A r \in Runs : pc[r] = "end" => CountTypes(lines[r], TerminalTypes) = 1

\* C2: under fair scheduling of the worker and of the consumer, the consumer
\* of every started run eventually takes the sentinel and leaves its loop,
\* also when orchestrator.run raises or the persistence step fails.
C2_ConsumerTerminates == \A r \in Runs : (pc[r] = "run") ~> cdone[r]

\* The consumer has left its loop after a run whose orchestrator.run raised.
C2_Witness == cdone[1] /\ Emitted(1, "error") = 1 /\ q[1] = <<>>

\* The sources of a run that returned non-empty text in time: the searches
\* whose block was appended and the directories that stored a text, without
\* those the join gave up on (they timed out).
Succeeded(r) ==
    (SearchNames \cap SeqToSet(used[r]))
    \cup (SeqToSet(results[r]) \ abandoned[r])

\* C3: whichever sources fail, engine.run returns without raising and its
\* summary has a block for exactly the sources that returned text in time.
C3_BlocksOfSucceedingSources ==
    \A r \in Runs : pc[r] = "after_scrape" =>
        /\ "RuntimeError" \notin SeqToSet(state[r].errors)
        /\ SeqToSet(state[r].scrape_summary) = {Label(s) : s \in Succeeded(r)}
        /\ SeqToSet(state[r].sources_used) = Succeeded(r)

\* The fixed priority order of the sources.
PriorityOrder == <<"Tavily", "Serper", "DuckDuckGo">> \o DIRECTORY_SCRAPERS

Rank(src) == CHOOSE i \in 1..Len(PriorityOrder) : PriorityOrder[i] = src

InPriorityOrder(names) ==
    \A i, j \in 1..Len(names) : i < j => Rank(names[i]) < Rank(names[j])

\* C4: the names in sources_used, and the blocks of the summary with them,
\* stand in the fixed priority order whatever the order of completion.
C4_FixedBlockOrder ==
    \A r \in Runs : pc[r] = "after_scrape" =>
        /\ InPriorityOrder(state[r].sources_used)
        /\ state[r].scrape_summary = Labels(state[r].sources_used)

\* Every source of the run failed or returned nothing: no search block, no
\* directory text, and no directory thread that could still store one.
AllSourcesFailed(r) ==
    /\ EngineLeft(r)
    /\ used[r] = <<>>
    /\ results[r] = <<>>
    /\ \A d \in DirNames : threads[r][d] = "dead"

\* C5: when every source fails or returns nothing the outcome is the empty
\* one with the warning log, the extraction LLM call is never made, no
\* exception leaves the stages, and the finished run has a terminal event
\* and a stored report.
C5_EmptyOutcome ==
    \A r \in Runs : AllSourcesFailed(r) =>
        /\ state[r].scrape_summary = <<>>
        /\ state[r].sources_used = <<>>
        /\ HasLog(r, "warn", "No results from any source")
        /\ "extract" \notin llmcalls[r]
        /\ exc[r] = "" /\ pc[r] # "except"
        /\ pc[r] = "end" =>
             /\ CountTypes(lines[r], TerminalTypes) >= 1
             /\ HasKey(report_store, state[r].session_id)

\* A run that was not stopped, whose sources were asked and all failed, has
\* finished.
C5_Witness ==
    /\ pc[1] = "end"
    /\ AllSourcesFailed(1)
    /\ ~is_set[1]
    /\ netcalls[1]["DuckDuckGo"] = 1
    /\ \E d \in DirNames : netcalls[1][d] = 1

\* C6: a run for which request_stop returned True while it was scraping ends
\* with a stopped event and emits no done event.
C6_StoppedNotDone ==
    \A r \in Runs : (stopInScrape[r] /\ pc[r] = "end") =>
        /\ Emitted(r, "stopped") = 1
        /\ Emitted(r, "done") = 0

\* C7: a stop request whose id has no registry entry finds nothing, answers
\* false, and leaves the registry and every run's Event as they were.
C7_UnknownStopChangesNothing ==
    [][\A s \in StopClients :
          /\ (stopper[s].pc = "idle" /\ stopper'[s].pc = "got"
                /\ stop_events[stopper'[s].id] = None)
             => (stopper'[s].ev = None /\ UNCHANGED regVars)
          /\ (stopper[s].pc = "got" /\ stopper[s].ev = None
                /\ stopper'[s].pc = "idle")
             => (~stopper'[s].ret /\ UNCHANGED regVars)]_vars

\* A request for an id without entry was answered false while another run
\* was registered with its Event not set.
C7_Witness ==
    /\ \E s \in StopClients :
         /\ stopper[s].pc = "idle" /\ stopper[s].id # None /\ ~stopper[s].ret
         /\ stop_events[stopper[s].id] = None
    /\ \E i \in Ids : stop_events[i] # None /\ ~is_set[stop_events[i]]

\* C8: a step a run takes with its Event set issues no network request, and
\* an adapter invoked with the Event set returns nothing: a search appends
\* no block and a directory thread ends without a fetch and without a text.
\* A run whose Event is set before scraping begins so makes no call at all.
C8_NoNetworkOnceSet ==
    [][\A r \in Runs : SignalSet(state[r].stop_event) =>
          /\ netcalls'[r] = netcalls[r]
          /\ (pc[r] \in {"tavily", "serper", "ddg"} /\ pc'[r] # pc[r])
               => (chunks'[r] = chunks[r] /\ used'[r] = used[r])
          /\ \A d \in DirNames :
               (threads[r][d] = "started" /\ threads'[r][d] # "started")
                 => (threads'[r][d] = "dead" /\ results'[r] = results[r])]_vars

\* Scraping with enabled directories has ended for a run whose Event is set,
\* without one network request.
C8_Witness ==
    /\ pc[1] = "after_scrape"
    /\ is_set[1]
    /\ \E d \in DirNames : cfg.enabled[d]
    /\ \A s \in Sources : netcalls[1][s] = 0

\* C9: a directory thread the join gave up on contributes nothing: its name
\* is not in sources_used, its block is not in the summary, and engine.run
\* does not raise.
C9_AbandonedContributesNothing ==
    \A r \in Runs : (pc[r] = "after_scrape" /\ abandoned[r] # {}) =>
        /\ "RuntimeError" \notin SeqToSet(state[r].errors)
        /\ \A d \in abandoned[r] :
             /\ d \notin SeqToSet(state[r].sources_used)
             /\ Label(d) \notin SeqToSet(state[r].scrape_summary)

\* C10: two runs that have been created have different session ids.
C10_UniqueSessionIds ==
    \A r1, r2 \in Runs :
        (r1 # r2 /\ state[r1].session_id # None /\ state[r2].session_id # None)
          => state[r1].session_id # state[r2].session_id

\* Worker positions between register_stop (orchestrator.run line 72) and
\* cleanup_stop (line 91): the run is active.
ActivePcs ==
    {"parse", "after_parse", "scrape", "after_scrape", "extract",
     "orch_check", "writer", "finally"} \cup ScrapingPcs

\* C11: while a run is active the registry maps its session id to the Event
\* of that run, so that a stop request for the id sets the Event the run
\* polls; no other run's register or release replaces or removes the entry.
C11_EntryIsOwnSignal ==
    \A r \in Runs : pc[r] \in ActivePcs =>
        stop_events[state[r].session_id] = state[r].stop_event

\* C12: the Event of a run, once set, stays set in every later step of the
\* run, and is_stopped(), once true for a run, is true ever after.
C12_SignalNeverUnset ==
    [][\A r \in Runs :
          /\ SignalSet(state[r].stop_event)
               => (state'[r].stop_event = state[r].stop_event /\ is_set'[r])
          /\ is_stopped(state[r])
               => \/ state'[r].stopped
                  \/ (state'[r].stop_event # None /\ is_set'[state'[r].stop_event])]_vars

\* A run whose Event was set has gone through every later step to its end.
C12_Witness ==
    /\ pc[1] = "end"
    /\ SignalSet(state[1].stop_event)
    /\ Emitted(1, "stopped") = 1

\* C13: request_stop answers True exactly when the registry held an Event
\* for the id at its lookup, and then that Event is set when it returns; the
\* Event it finds is that of a run with this id that is active at the lookup
\* (a finished run has no entry), and an answer False sets nothing.
C13_TrueIffRegistered ==
    [][\A s \in StopClients :
          /\ (stopper[s].pc = "idle" /\ stopper'[s].pc = "got") =>
               /\ stopper'[s].ev = stop_events[stopper'[s].id]
               /\ stopper'[s].ev # None =>
                    /\ pc[stopper'[s].ev] \in ActivePcs
                    /\ state[stopper'[s].ev].session_id = stopper'[s].id
          /\ (stopper[s].pc = "got" /\ stopper'[s].pc = "idle") =>
               /\ stopper'[s].ret <=> (stopper[s].ev # None)
               /\ stopper'[s].ret => is_set'[stopper[s].ev]
               /\ ~stopper'[s].ret => is_set' = is_set]_vars

\* A request was answered True and the Event of the active run it named is
\* set, while another request was answered False.
C13_Witness ==
    /\ \E s \in StopClients, r \in Runs :
         /\ stopper[s].pc = "idle" /\ stopper[s].ret
         /\ state[r].session_id = stopper[s].id
         /\ pc[r] \in ActivePcs /\ is_set[r]
    /\ \E s \in StopClients :
         stopper[s].pc = "idle" /\ stopper[s].id # None /\ ~stopper[s].ret

\* C14: register_stop stores under the id, and returns, a fresh Event that is
\* not set, whatever was registered under the id before; right after the
\* call the registry maps the id to the returned Event, no other run holds
\* that Event, and the entries of the other ids are as they were.
C14_RegisterStoresFresh ==
    [][\A r \in Runs : (pc[r] = "register" /\ pc'[r] = "parse") =>
          LET sid == state[r].session_id
              ev  == state'[r].stop_event
          IN /\ ev # None
             /\ stop_events'[sid] = ev
             /\ ~is_set'[ev]
             /\ \A x \in Runs \ {r} : state'[x].stop_event # ev
             /\ \A x \in Runs : stop_events[sid] = x => x # ev
             /\ \A i \in Ids \ {sid} : stop_events'[i] = stop_events[i]]_vars

\* A run has registered under an id that held the Event of another run,
\* which is still active: the entry now is the later run's Event.
C14_Witness ==
    \E r1, r2 \in Runs :
        /\ r1 # r2
        /\ pc[r1] \in ActivePcs /\ pc[r2] = "parse"
        /\ state[r1].session_id = state[r2].session_id
        /\ state[r1].stop_event = r1
        /\ stop_events[state[r2].session_id] = r2

\* Worker positions after cleanup_stop of orchestrator.run line 91.
ReleasedPcs == {"except", "orch_stopped", "store", "store_put", "done",
                "persist",
                "sentinel", "end"}

\* C15: on every registry the runs can produce and for every id,
\* cleanup_stop is defined, removes the entry of the id, leaves every other
\* entry alone, changes nothing when the id has no entry, and applied twice
\* gives what it gives applied once.
C15_CleanupIdempotent ==
    \A sid \in Ids :
        LET once == cleanup_stop(stop_events, sid)
        IN /\ DOMAIN once = Ids
           /\ once[sid] = None
           /\ \A i \in Ids \ {sid} : once[i] = stop_events[i]
           /\ stop_events[sid] = None => once = stop_events
           /\ cleanup_stop(once, sid) = once

\* Two runs with one id have both gone through their finally block, the
\* later of them on an id already released.
C15_Witness ==
    \E r1, r2 \in Runs :
        /\ r1 # r2
        /\ state[r1].session_id = state[r2].session_id
        /\ pc[r1] \in ReleasedPcs /\ pc[r2] \in ReleasedPcs
        /\ stop_events[state[r1].session_id] = None

\* C16: once orchestrator.run of a run has returned or raised, the registry
\* no longer holds the Event of that run, and when every run has finished
\* the registry is empty.
C16_EntryReleased ==
    /\ \A r \in Runs : pc[r] \in ReleasedPcs =>
         \A i \in Ids : stop_events[i] # state[r].stop_event
    /\ (\A r \in Runs : pc[r] = "end") => \A i \in Ids : stop_events[i] = None

\* Every run has finished, one after a stage raised and one stopped, and the
\* registry is empty.
C16_Witness ==
    /\ \A r \in Runs : pc[r] = "end"
    /\ \E r \in Runs : Emitted(r, "error") = 1
    /\ \E r \in Runs : Emitted(r, "stopped") = 1
    /\ \A i \in Ids : stop_events[i] = None

\* C17: the calls of the workers and of racing stop requests give the
\* answers and the registry and Event states of the sequential order in
\* which register_stop and cleanup_stop take effect at their locked step and
\* request_stop at its lookup: every answer is the one the atomic call would
\* have given, and the Events set are those the atomic calls would have set,
\* up to the Events that requests still in flight are about to set.  (The
\* registry is written only by the locked steps, so it is that of the
\* sequential order by construction.)
C17_Linearizable ==
    /\ \A r \in Runs :
         linSet[r] <=> (is_set[r] \/ \E s \in StopClients :
                                       stopper[s].pc = "got" /\ stopper[s].ev = r)
    /\ \A s \in StopClients :
         (stopper[s].pc = "idle" /\ stopper[s].id # None)
           => (stopper[s].ret <=> linRet[s])

\* Two requests are in flight at once, one of them having found the Event of
\* a run that has released its entry since: the Event is not set yet.
C17_Witness ==
    \E s1, s2 \in StopClients, r \in Runs :
        /\ s1 # s2
        /\ stopper[s1].pc = "got" /\ stopper[s2].pc = "got"
        /\ stopper[s1].ev = r
        /\ pc[r] \in ReleasedPcs
        /\ ~is_set[r]

\* The stages that a check of is_stopped() which found the run stopped
\* leaves out: nothing of scraping after the first check, no extraction or
\* writer LLM call after the first two, no writer after the third.
SkipsLaterStages(r) ==
    /\ stoppedAt[r] = "parse" =>
         /\ ~HasLog(r, "info", "Scraping")
         /\ \A s \in Sources : netcalls[r][s] = 0
    /\ stoppedAt[r] \in {"parse", "scrape"} => "extract" \notin llmcalls[r]
    /\ stoppedAt[r] # "" =>
         /\ "write" \notin llmcalls[r]
         /\ ~HasLog(r, "system", "WriterAgent starting")

\* C18: a run whose check of is_stopped() after parsing, scraping or
\* extracting was true executes no later stage and ends in the stopped
\* terminal state: its stopped event is its one terminal event.
C18_StoppedGoesToStopped ==
    \A r \in Runs :
        /\ SkipsLaterStages(r)
        /\ (stoppedAt[r] # "" /\ pc[r] = "end") =>
             /\ Emitted(r, "stopped") = 1
             /\ Emitted(r, "done") = 0

\* C19: no exception leaves a stage: a failure that is neither a rate limit
\* nor a stop is recorded in errors by the stage, and the finished run has
\* its report stored and has emitted done, not error.
C19_StageErrorsCaught ==
    \A r \in Runs :
        /\ exc[r] = ""
        /\ pc[r] = "end" =>
             /\ Emitted(r, "done") = 1
             /\ Emitted(r, "error") = 0
             /\ HasKey(report_store, state[r].session_id)

\* C20: a run in which an LLM call was rate-limited, at whichever stage, has
\* the rate limit in its errors list.
C20_RateLimitRecorded ==
    \A r \in Runs :
        (\/ HasLog(r, "warn", "Rate limit on query parse")
         \/ HasLog(r, "warn", "Rate limit on supplier extraction")
         \/ HasLog(r, "warn", "Rate limit on report generation"))
          => "RateLimit" \in SeqToSet(state[r].errors)

\* C21: a rate limit at the parsing stage leaves the run with the raw query
\* as product and "Global" as location, does not mark it stopped (the flag
\* is only ever set on a set Event), leaves the stage without an exception,
\* and the run goes on to scraping unless a stop request intervenes.
C21_ParseRateLimitNonFatal ==
    \A r \in Runs : HasLog(r, "warn", "Rate limit on query parse") =>
        /\ state[r].parsed_product = "query"
        /\ state[r].parsed_location = "Global"
        /\ state[r].stopped => is_set[r]
        /\ pc[r] = "after_parse" => exc[r] = ""
        /\ (~is_set[r] /\ pc[r] \notin {"after_parse", "scrape"})
             => HasLog(r, "info", "Scraping")

\* A run that was rate-limited at parsing and never stopped has scraped and
\* finished with done.
C21_Witness ==
    /\ pc[1] = "end"
    /\ HasLog(1, "warn", "Rate limit on query parse")
    /\ ~is_set[1]
    /\ HasLog(1, "info", "Scraping")
    /\ Emitted(1, "done") = 1

\* C22: a rate limit at the extraction stage is recorded in the run's errors
\* and is not fatal: the supplier list stays empty, no suppliers event is
\* emitted, no exception leaves the stage, the run goes on to the writer
\* unless a stop request intervenes, and it ends with done and no error
\* event.
C22_ExtractRateLimitNonFatal ==
    \A r \in Runs : HasLog(r, "warn", "Rate limit on supplier extraction") =>
        /\ "RateLimit" \in SeqToSet(state[r].errors)
        /\ state[r].raw_results = <<>>
        /\ Emitted(r, "suppliers") = 0
        /\ exc[r] = "" /\ pc[r] # "except"
        /\ (~is_set[r] /\ pc[r] \notin {"orch_check", "writer"})
             => HasLog(r, "system", "WriterAgent starting")
        /\ pc[r] = "end" => Emitted(r, "done") = 1 /\ Emitted(r, "error") = 0

\* A run that was rate-limited at extraction and never stopped has gone
\* through the writer and finished with done.
C22_Witness ==
    /\ pc[1] = "end"
    /\ HasLog(1, "warn", "Rate limit on supplier extraction")
    /\ ~is_set[1]
    /\ HasLog(1, "system", "WriterAgent starting")
    /\ Emitted(1, "done") = 1

\* C23: a rate limit at the writing stage is not fatal whatever supplier
\* list extraction produced: no exception leaves the writer, the final
\* report is the plain-text listing, and the run ends with done and no
\* error event.
C23_WriterRateLimitNonFatal ==
    \A r \in Runs : HasLog(r, "warn", "Rate limit on report generation") =>
        /\ exc[r] = "" /\ pc[r] # "except"
        /\ state[r].final_report = "fallback"
        /\ pc[r] = "end" => Emitted(r, "done") = 1 /\ Emitted(r, "error") = 0

\* C24: a run that is not stopped and whose research stage handed off an
\* empty supplier list (the aggregate was empty, or extraction yielded
\* nothing) ends with exactly one done event and no error event, and the
\* report of that done event is the non-empty "no suppliers found, try
\* broadening your search" message.
C24_EmptyDataStillReports ==
    \A r \in Runs :
        (/\ pc[r] = "end"
         /\ ~is_stopped(state[r])
         /\ state[r].handoff_done
         /\ state[r].raw_results = <<>>)
        => /\ Emitted(r, "done") = 1
           /\ Emitted(r, "error") = 0
           /\ state[r].final_report # ""
           /\ \A i \in DOMAIN lines[r] :
                lines[r][i].type = "done" => lines[r][i].msg = "No suppliers found"

\* A run that scraped, was never stopped and has no supplier has ended with
\* the done event carrying the message.
C24_Witness ==
    /\ pc[1] = "end"
    /\ ~is_set[1]
    /\ state[1].handoff_done
    /\ state[1].raw_results = <<>>
    /\ Ev("done", 1, "", "No suppliers found") \in SeqToSet(lines[1])

\* C25: with several runs at once on the same orchestrator, every entry a
\* run's logger has recorded and queued was produced by that run's own
\* pipeline: no log of one run's scraping is on another run's queue.
C25_OwnQueueOnly ==
    \A r \in Runs :
        /\ \A i \in DOMAIN lines[r] : lines[r][i].by = r
        /\ \A i \in DOMAIN q[r] : q[r][i] = Sentinel \/ q[r][i].by = r

\* C26: the consumer of a run relays the events in exactly the order in
\* which they were pushed, each once: what it has relayed followed by what
\* is still queued is the sequence pushed so far (the sentinel last, once
\* the worker has put it); when it takes the sentinel it has relayed every
\* event and relays nothing afterwards.
C26_RelayedInPushedOrder ==
    \A r \in Runs :
        LET pushed == lines[r] \o (IF pc[r] = "end" THEN <<Sentinel>> ELSE <<>>)
        IN /\ ~cdone[r] => relayed[r] \o q[r] = pushed
           /\ cdone[r] => pc[r] = "end" /\ relayed[r] = lines[r] /\ q[r] = <<>>

\* The consumer has left its loop after relaying a whole successful run.
C26_Witness ==
    /\ cdone[1]
    /\ Emitted(1, "done") = 1
    /\ Len(relayed[1]) > 10
    /\ relayed[1] = lines[1]

\* C27: the terminal event is the final item of a run's channel: once the
\* worker has put the sentinel, the last event pushed before it is done,
\* stopped or error, and no event follows a terminal event, also when the
\* persistence step failed.  Stated for the runs no stop request reached.
C27_TerminalEventLast ==
    \A r \in Runs :
        (pc[r] = "end" /\ ~is_set[r]) =>
            /\ lines[r] # <<>>
            /\ \A i \in DOMAIN lines[r] :
                 lines[r][i].type \in TerminalTypes <=> i = Len(lines[r])

\* A source of the run that was asked and gave nothing: a search without its
\* "results" log, a directory whose thread ended without storing a text.
FailedSource(r, s) ==
    /\ netcalls[r][s] > 0
    /\ IF s \in SearchNames
       THEN ~HasLog(r, "success", s \o " results")
       ELSE threads[r][s] = "dead" /\ s \notin SeqToSet(results[r])

\* The configuration makes the engine query the source.
SourceEnabled(s) ==
    CASE s = "Tavily"     -> cfg.has_tavily
      [] s = "Serper"     -> cfg.has_serper
      [] s = "DuckDuckGo" -> TRUE
      [] OTHER            -> cfg.enabled[s]

\* C28: a run sends every source at most one network request, and none to a
\* source that is not enabled: nothing is retried.  A source that failed has
\* no entry in sources_used and no block in the summary.
C28_OneRequestPerSource ==
    \A r \in Runs :
        /\ \A s \in Sources :
             /\ netcalls[r][s] <= 1
             /\ netcalls[r][s] > 0 => SourceEnabled(s)
        /\ pc[r] = "after_scrape" =>
             \A s \in Sources : FailedSource(r, s) =>
                 /\ s \notin SeqToSet(state[r].sources_used)
                 /\ Label(s) \notin SeqToSet(state[r].scrape_summary)

\* The engine has returned an outcome after one request to a search that
\* failed and one to a directory that failed, other sources having answered.
C28_Witness ==
    /\ pc[1] = "after_scrape"
    /\ netcalls[1]["DuckDuckGo"] = 1 /\ FailedSource(1, "DuckDuckGo")
    /\ \E d \in DirNames : netcalls[1][d] = 1 /\ FailedSource(1, d)
    /\ state[1].sources_used # <<>>

\* C29: a stage that comes to its LLM call while the run's Event is set
\* skips the call: no request is sent, the stage sets stopped to true, and
\* it appends nothing to errors and raises nothing.
C29_SetSignalSkipsCall ==
    [][\A r \in Runs :
         (/\ state[r].stop_event # None
          /\ is_set[state[r].stop_event]
          /\ pc'[r] # pc[r]
          /\ \/ pc[r] = "parse"
             \/ pc[r] = "extract" /\ state[r].scrape_summary # <<>>
             \/ pc[r] = "writer" /\ state[r].raw_results # <<>>)
         => /\ llmcalls'[r] = llmcalls[r]
            /\ state'[r].stopped
            /\ state'[r].errors = state[r].errors
            /\ exc'[r] = exc[r]]_vars

\* The writer came to its call with the Event set: the run is marked stopped
\* and the report call was never made.
C29_Witness ==
    /\ pc[1] = "end"
    /\ state[1].stopped
    /\ HasLog(1, "info", "Writing report")
    /\ "write" \notin llmcalls[1]
    /\ state[1].errors = <<>>

\* C30: both stages of a directory adapter honour the Event: a thread that
\* finds it set issues no fetch, and a fetch that returns while it is set is
\* not followed by the extraction, so the adapter returns empty text and
\* nothing is stored for the directory.
C30_BothStagesCheckSignal ==
    [][\A r \in Runs : \A d \in DirNames :
         (state[r].stop_event # None /\ is_set[state[r].stop_event]) =>
            /\ (threads[r][d] = "started" /\ threads'[r][d] # "started")
                 => netcalls'[r][d] = netcalls[r][d]
            /\ (threads[r][d] = "fetching" /\ threads'[r][d] = "dead")
                 => results'[r] = results[r]]_vars

\* C31: a source is queried, and contributes, only if it is enabled: Tavily
\* only with a key that starts with "tvly-", Serper only with a key, a
\* directory only with its flag set.  DuckDuckGo is queried in every run,
\* also when a keyed source has returned results.
C31_OnlyEnabledSources ==
    \A r \in Runs :
        LET asked(s) == \/ netcalls[r][s] > 0
                        \/ s \in SeqToSet(used[r]) \cup SeqToSet(results[r])
                        \/ s \in SeqToSet(state[r].sources_used)
                        \/ HasLog(r, "info", "Searching " \o s)
        IN /\ asked("Tavily") =>
                /\ Len(cfg.tavily_key) >= 5
                /\ SubSeq(cfg.tavily_key, 1, 5) = <<"t", "v", "l", "y", "-">>
           /\ asked("Serper") => cfg.serper_key # <<>>
           /\ \A d \in DirNames : asked(d) => cfg.enabled[d]
           /\ pc[r] \in {"dirs", "join", "merge", "iter", "after_scrape"}
                => HasLog(r, "info", "Searching DuckDuckGo")

\* The engine returned an outcome to which Tavily and DuckDuckGo both
\* contributed.
C31_Witness ==
    /\ pc[1] = "after_scrape"
    /\ "Tavily" \in SeqToSet(state[1].sources_used)
    /\ "DuckDuckGo" \in SeqToSet(state[1].sources_used)
    /\ netcalls[1]["DuckDuckGo"] = 1

\* The sources that gave the engine non-empty text: the searches with a
\* "results" log and the directories in the dict when it was iterated.
Contributed(r) ==
    {s \in SearchNames : HasLog(r, "success", s \o " results")}
    \cup SeqToSet(SubSeq(results[r], 1, iterLen[r]))

\* C32: in every outcome the engine returns, sources_used has one entry per
\* labeled block of the summary, in the order of the blocks, without
\* repetition, and names exactly the sources that contributed non-empty text.
\* With no key, no directory enabled and DuckDuckGo returning results the
\* outcome is sources_used = <<"DuckDuckGo">> with exactly one block.
C32_OneNamePerBlock ==
    \A r \in Runs :
        LET su == state[r].sources_used
            sm == state[r].scrape_summary
        IN /\ Len(su) = Len(sm)
           /\ \A i \in DOMAIN su : sm[i] = Label(su[i])
           /\ \A i, j \in DOMAIN su : su[i] = su[j] => i = j
           /\ (pc[r] = "after_scrape"
                 /\ "RuntimeError" \notin SeqToSet(state[r].errors)) =>
                /\ SeqToSet(su) = Contributed(r)
                /\ (/\ Unkeyed(cfg)
                    /\ \A d \in DirNames : ~cfg.enabled[d]
                    /\ HasLog(r, "success", "DuckDuckGo results"))
                   => su = <<"DuckDuckGo">> /\ Len(sm) = 1

\* The engine returned an outcome of a search block followed by a directory
\* block.
C32_Witness ==
    /\ pc[1] = "after_scrape"
    /\ Len(state[1].sources_used) >= 2
    /\ state[1].sources_used[1] \in SearchNames
    /\ state[1].sources_used[Len(state[1].sources_used)] \in DirNames

\* C33: for a summary of any length the raw data of the extraction prompt is
\* the summary's prefix of at most 12000 characters (the whole summary when
\* it is not longer), and the extraction stage returns without raising.
C33_PromptWithinCap ==
    /\ fn.op \in {"summary", "prompt", "answered", "recorded"}
    /\ fn.op # "summary" =>
         /\ Len(fn.out) <= 12000
         /\ Len(fn.out) <= Len(fn.text)
         /\ \A i \in 1..Len(fn.out) : fn.out[i] = fn.text[i]
         /\ Len(fn.text) <= 12000 => fn.out = fn.text
         /\ Len(fn.text) > 12000 => Len(fn.out) = 12000

\* The stage has returned after a call made with an oversized summary.
C33_Witness ==
    /\ fn.op \in {"answered", "recorded"}
    /\ Len(fn.text) > 12000
    /\ Len(fn.out) = 12000

\* C34: extract_text is idempotent: applied to its own output it yields that
\* output again, also when the first application truncated the text.
C34_ExtractIdempotent ==
    fn.op = "twice" => fn.out[2] = fn.out[1]

\* C35: a run is stored before it is terminal: whenever a stopped or done
\* event of a run has been emitted, the report store holds the run's record
\* under its session id.
C35_StoredBeforeTerminal ==
    \A r \in Runs :
        (Emitted(r, "stopped") > 0 \/ Emitted(r, "done") > 0) =>
            \E i \in DOMAIN report_store :
                /\ report_store[i].session_id = state[r].session_id
                /\ report_store[i].by = r

\* C36: the report store never holds more than 200 entries, however many
\* runs store their reports at the same time.
C36_StoreBounded == Len(report_store) <= REPORT_STORE_MAX

\* The step in which the adapter of a source starts its work.
StartAdapter(r, s) ==
    CASE s = "Tavily"     -> SearchTavily(r)
      [] s = "Serper"     -> SearchSerper(r)
      [] s = "DuckDuckGo" -> SearchDuckDuckGo(r)
      [] OTHER            -> DirRun(r, s)

\* The adapter of the source has not been called in this run.
NotStarted(r, s) ==
    IF s \in SearchNames
    THEN ~HasLog(r, "info", "Searching " \o s)
    ELSE threads[r][s] \in {"none", "started"}

\* C37: within the scraping stage no adapter waits for another one: while
\* the searches are under way, every enabled source whose adapter has not
\* started yet is able to start, whatever the other adapters are doing.
C37_AdaptersDoNotWait ==
    \A r \in Runs : \A s \in Sources :
        (/\ pc[r] \in {"tavily", "serper", "ddg"}
         /\ SourceEnabled(s)
         /\ NotStarted(r, s))
        => ENABLED StartAdapter(r, s)

\* C38: in one run the number of directory pages fetched never exceeds the
\* configured scrape_limit.
C38_WithinScrapeLimit ==
    \A r \in Runs :
        Cardinality({d \in DirNames : netcalls[r][d] > 0}) <= cfg.scrape_limit

\* C39: a run is marked stopped, and emits a stopped event, only if its own
\* Event is set, and an Event becomes set only in the step of a stop request
\* that found this Event and answers True.  A run for which no request
\* answered True therefore ends without a stopped event.
C39_StoppedOnlyOnOwnSignal ==
    /\ [](\A r \in Runs :
            (state[r].stopped \/ Emitted(r, "stopped") > 0)
              => (state[r].stop_event = r /\ is_set[r]))
    /\ [][\A r \in Runs : (is_set'[r] /\ ~is_set[r]) =>
             \E s \in StopClients :
                 /\ stopper[s].pc = "got" /\ stopper[s].ev = r
                 /\ stopper'[s].pc = "idle" /\ stopper'[s].ret]_vars

\* One run was stopped by a request and has emitted stopped; another run,
\* whose Event no request set, has ended with error and without stopped.
C39_Witness ==
    \E r1, r2 \in Runs :
        /\ pc[r1] = "end" /\ is_set[r1] /\ Emitted(r1, "stopped") = 1
        /\ pc[r2] = "end" /\ ~is_set[r2]
        /\ Emitted(r2, "stopped") = 0 /\ Emitted(r2, "error") = 1

\* The session event of a run comes once, carries nothing before it of the
\* kinds suppliers, stopped or done, and is emitted with the run registered.
SessionEventFirst(r) ==
    /\ pc[r] \in ActivePcs \cup ReleasedPcs => Emitted(r, "session") = 1
    /\ pc[r] \in {"idle", "run", "register"} => Emitted(r, "session") = 0
    /\ \A i, j \in DOMAIN lines[r] :
         (lines[r][i].type = "session"
            /\ lines[r][j].type \in {"suppliers", "stopped", "done"}) => i < j

\* C40: every run emits exactly one session event, once its Event is
\* registered and before any suppliers, stopped or done event, and from then
\* on, while the run is active, the registry holds an Event under the run's
\* session id, so that a stop request made with that id finds one.
C40_SessionIdStoppable ==
    \A r \in Runs :
        /\ SessionEventFirst(r)
        /\ pc[r] \in ActivePcs => lookup_stop(stop_events, state[r].session_id) # None

=============================================================================
